---- MODULE Spec2Model ----
(***************************************************************************)
(* Changeset counts (enterprise/pkg/a8n/counts.go) and the GitHub webhook  *)
(* gateway exercised by testGitHubWebhook (cmd/repo-updater/build.sh).     *)
(*                                                                         *)
(* Time is counted in units of 12 hours, so one sampling step (24h) is     *)
(* Day = 2 units and windows that are not a whole number of days exist.    *)
(***************************************************************************)
EXTENDS Integers, Sequences, FiniteSets, Bags, TLC

VARIABLES
    pc,           \* position of the CalcCounts call: "call", "loop", "done"
    start,        \* argument start
    end,          \* argument end
    cs,           \* argument cs: sequence of changesets (index = pointer)
    given,        \* the events as the caller supplied them
    es,           \* the caller's event slice (sorted in place by the call)
    byChangeset,  \* map changeset -> its events
    todo,         \* changesets the range over byChangeset has not visited
    counts,       \* the snapshots under construction
    ret,          \* what CalcCounts returned: [counts, nil (no slice), err]
    externalServices,  \* store: configured external services
    changesets,        \* store: ids of the tracked changesets
    changesetEvents,   \* store: bag of changeset event rows
    req,               \* the webhook request in flight
    resp               \* the gateway's answer to the last request

calc == <<pc, start, end, cs, given, es, byChangeset, todo, counts, ret>>
store == <<externalServices, changesets, changesetEvents>>
hook == <<store, req, resp>>
vars == <<calc, hook>>

----------------------------------------------------------------------------
(* Bounds *)

MaxTime == 4
MaxChangesets == 2
MaxEvents == 2
MaxKeys == 1

(* 24 * time.Hour in units of 12 hours *)
Day == 2

Nil == "nil"

Times == 0..MaxTime

----------------------------------------------------------------------------
(* Data *)

GitHubClosed == "github:closed"
GitHubReopened == "github:reopened"
GitHubMerged == "github:merged"
GitHubReviewed == "github:reviewed"

ReviewStates == {"APPROVED", "CHANGES_REQUESTED", "PENDING"}

(* fakeEvent / a8n.ChangesetEvent seen through the Event interface *)
Timestamp(e) == e.t
Type(e) == e.kind
Changeset(e) == e.id

Before(a, b) == a < b
AfterOrEqual(a, b) == a >= b

After(a, b) == a > b

(* c.ExternalCreatedAt(): the creation time on the code host, or an error *)
(* when the changeset carries no metadata that has one                    *)
ExternalCreatedAt(c) ==
    IF c.HasMeta THEN [t |-> c.CreatedAt, err |-> Nil]
    ELSE [t |-> 0, err |-> "MissingCreationTime"]

(* no webhook request in flight *)
NoRequest ==
    [Org |-> "", Event |-> "", Secret |-> "", Signature |-> <<>>,
     Body |-> [pr |-> 0, key |-> 0, data |-> "", valid |-> FALSE]]

ZeroCounts(t) ==
    [Time |-> t, Total |-> 0, Merged |-> 0, Closed |-> 0, Open |-> 0,
     OpenApproved |-> 0, OpenChangesRequested |-> 0, OpenPending |-> 0]

----------------------------------------------------------------------------
(* generateTimestamps *)

RECURSIVE WalkBack(_, _)
WalkBack(t, from) ==
    IF After(t, from) \/ t = from THEN <<t>> \o WalkBack(t - Day, from) ELSE <<>>

Reverse(s) == [i \in 1..Len(s) |-> s[Len(s) + 1 - i]]

RECURSIVE WalkForward(_, _)
WalkForward(t, to) ==
    IF t <= to THEN <<t>> \o WalkForward(t + Day, to) ELSE <<>>

generateTimestampsFromStart(s, e) == WalkForward(s, e)

generateTimestampsSkipsEnd(s, e) == Reverse(WalkBack(e - Day, s))

generateTimestamps(s, e) == Reverse(WalkBack(e, s))

----------------------------------------------------------------------------
(* sort.Sort(Events(es)): sorted by Less, order of equal timestamps open *)

Less(s, i, j) == Before(Timestamp(s[i]), Timestamp(s[j]))

RemoveAt(s, i) == SubSeq(s, 1, i - 1) \o SubSeq(s, i + 1, Len(s))

(* every arrangement of s in which no element is Less than one before it *)
RECURSIVE SortOutcomes(_)
SortOutcomes(s) ==
    IF Len(s) = 0 THEN {<<>>}
    ELSE UNION {{<<s[i]>> \o rest : rest \in SortOutcomes(RemoveAt(s, i))} :
                  i \in {k \in 1..Len(s) : \A j \in 1..Len(s) : ~Less(s, j, k)}}

GroupOfAll(c, events) == events

GroupOf(c, events) == SelectSeq(events, LAMBDA e : Changeset(e) = c.ID)

----------------------------------------------------------------------------
(* The inner loops of CalcCounts *)

ApplyEventMergedKeepsOpen(count, e) ==
    CASE Type(e) = GitHubClosed ->
           [count EXCEPT !.Open = @ - 1, !.Closed = @ + 1]
      [] Type(e) = GitHubReopened ->
           [count EXCEPT !.Open = @ + 1, !.Closed = @ - 1]
      [] Type(e) = GitHubMerged ->
           [count EXCEPT !.Merged = @ + 1]
      [] OTHER -> count

ApplyEventClosedResets(count, e) ==
    CASE Type(e) = GitHubClosed ->
           [count EXCEPT !.Open = 0, !.Closed = @ + 1]
      [] Type(e) = GitHubReopened ->
           [count EXCEPT !.Open = @ + 1, !.Closed = @ - 1]
      [] Type(e) = GitHubMerged ->
           [count EXCEPT !.Merged = @ + 1, !.Open = @ - 1]
      [] OTHER -> count

ApplyEvent(count, e) ==
    CASE Type(e) = GitHubClosed ->
           [count EXCEPT !.Open = @ - 1, !.Closed = @ + 1]
      [] Type(e) = GitHubReopened ->
           [count EXCEPT !.Open = @ + 1, !.Closed = @ - 1]
      [] Type(e) = GitHubMerged ->
           [count EXCEPT !.Merged = @ + 1, !.Open = @ - 1]
      [] OTHER -> count

RECURSIVE ApplyEvents(_, _, _)
ApplyEvents(count, csEvents, i) ==
    IF i > Len(csEvents) THEN count
    ELSE IF After(Timestamp(csEvents[i]), count.Time)
         THEN ApplyEvents(count, csEvents, i + 1)
         ELSE ApplyEvents(ApplyEvent(count, csEvents[i]), csEvents, i + 1)

CountChangesetResetsOpen(count, openedAt, csEvents) ==
    IF Before(openedAt, count.Time) \/ openedAt = count.Time
    THEN ApplyEvents([count EXCEPT !.Total = @ + 1, !.Open = 1], csEvents, 1)
    ELSE count

CountChangesetTotalFlag(count, openedAt, csEvents) ==
    IF Before(openedAt, count.Time) \/ openedAt = count.Time
    THEN ApplyEvents([count EXCEPT !.Total = 1, !.Open = @ + 1], csEvents, 1)
    ELSE count

CountChangesetNoContinue(count, openedAt, csEvents) ==
    IF Before(openedAt, count.Time) \/ openedAt = count.Time
    THEN ApplyEvents([count EXCEPT !.Total = @ + 1, !.Open = @ + 1], csEvents, 1)
    ELSE ApplyEvents(count, csEvents, 1)

CountChangeset(count, openedAt, csEvents) ==
    IF Before(openedAt, count.Time) \/ openedAt = count.Time
    THEN ApplyEvents([count EXCEPT !.Total = @ + 1, !.Open = @ + 1], csEvents, 1)
    ELSE count

----------------------------------------------------------------------------
(* CalcCounts as steps *)

(* lines 52-72: timestamps, zeroed counts, sort, grouping *)
Start ==
    /\ pc = "call"
    /\ \E sorted \in SortOutcomes(es) :
         /\ es' = sorted
         /\ byChangeset' = [c \in 1..Len(cs) |-> GroupOf(cs[c], sorted)]
    /\ counts' = LET ts == generateTimestamps(start, end)
                 IN  [i \in 1..Len(ts) |-> ZeroCounts(ts[i])]
    /\ todo' = 1..Len(cs)
    /\ pc' = "loop"
    /\ UNCHANGED <<start, end, cs, given, ret, hook>>

(* one iteration of the range over byChangeset, creation time known *)
Visit(c) ==
    /\ pc = "loop"
    /\ c \in todo
    /\ ExternalCreatedAt(cs[c]).err = Nil
    /\ counts' = [i \in 1..Len(counts) |->
                    CountChangeset(counts[i], ExternalCreatedAt(cs[c]).t, byChangeset[c])]
    /\ todo' = todo \ {c}
    /\ UNCHANGED <<pc, start, end, cs, given, es, byChangeset, ret, hook>>

VisitErrSkips(c) ==
    /\ pc = "loop"
    /\ c \in todo
    /\ ExternalCreatedAt(cs[c]).err # Nil
    /\ todo' = todo \ {c}
    /\ UNCHANGED <<pc, start, end, cs, given, es, byChangeset, counts, ret, hook>>

(* one iteration of the range over byChangeset, creation time missing *)
VisitErr(c) ==
    /\ pc = "loop"
    /\ c \in todo
    /\ ExternalCreatedAt(cs[c]).err # Nil
    /\ ret' = [counts |-> <<>>, nil |-> TRUE, err |-> ExternalCreatedAt(cs[c]).err]
    /\ pc' = "done"
    /\ UNCHANGED <<start, end, cs, given, es, byChangeset, todo, counts, hook>>

(* line 116 *)
Return ==
    /\ pc = "loop"
    /\ todo = {}
    /\ ret' = [counts |-> counts, nil |-> FALSE, err |-> Nil]
    /\ pc' = "done"
    /\ UNCHANGED <<start, end, cs, given, es, byChangeset, todo, counts, hook>>

Next ==
    \/ Start
    \/ \E c \in todo : Visit(c)
    \/ \E c \in todo : VisitErr(c)
    \/ Return

----------------------------------------------------------------------------
(* Inputs *)

SeqsUpTo(S, n) == UNION {[1..k -> S] : k \in 0..n}

EventsOfKinds(kinds, ids) == [t : Times, kind : kinds, id : ids, state : {""}]

LifeEvents(ids) == EventsOfKinds({GitHubClosed, GitHubReopened, GitHubMerged}, ids)

ReviewEvents(ids) ==
    [t : Times, kind : {GitHubReviewed}, id : ids, state : ReviewStates]

ChangesetValues(ids) ==
    [ID : ids, HasMeta : {TRUE}, CreatedAt : 0..Day]
    \cup [ID : ids, HasMeta : {FALSE}, CreatedAt : {0}]

ChangesetLists(ids, n) ==
    {l \in SeqsUpTo(ChangesetValues(ids), n) :
        \A i, j \in 1..Len(l) : i # j => l[i].ID # l[j].ID}

InitWith(windows, lists, eventSeqs) ==
    /\ pc = "call"
    /\ \E w \in windows : start = w[1] /\ end = w[2]
    /\ cs \in lists
    /\ given \in eventSeqs
    /\ es = given
    /\ byChangeset = <<>>
    /\ todo = {}
    /\ counts = <<>>
    /\ ret = [counts |-> <<>>, nil |-> TRUE, err |-> Nil]
    /\ externalServices = {}
    /\ changesets = {}
    /\ changesetEvents = EmptyBag
    /\ req = NoRequest
    /\ resp = [code |-> 0, stage |-> "none"]

(* up to MaxChangesets changesets, any events, windows ending at MaxTime *)
Init ==
    InitWith((0..1) \X {MaxTime},
             ChangesetLists(1..MaxChangesets, MaxChangesets),
             SeqsUpTo(LifeEvents(1..MaxChangesets) \cup ReviewEvents(1..MaxChangesets),
                      MaxEvents))

Spec == Init /\ [][Next]_vars

(* one changeset and up to MaxEvents + 1 of its closed/reopened/merged events *)
InitSingle ==
    InitWith({<<0, MaxTime>>},
             ChangesetLists({1}, 1) \ {<<>>},
             SeqsUpTo(LifeEvents({1}), MaxEvents + 1))

SpecSingle == InitSingle /\ [][Next]_vars

(* up to MaxChangesets changesets in any order, fewer events, one window *)
InitBatch ==
    InitWith({<<0, MaxTime>>},
             ChangesetLists(1..MaxChangesets, MaxChangesets),
             SeqsUpTo(EventsOfKinds({GitHubClosed, GitHubMerged}, 1..MaxChangesets),
                      MaxEvents - 1))

SpecBatch == InitBatch /\ [][Next]_vars

(* every window over Times, including end before start *)
InitWindow ==
    InitWith(Times \X Times,
             ChangesetLists({1}, 1),
             SeqsUpTo(LifeEvents({1}), MaxEvents - 1))

SpecWindow == InitWindow /\ [][Next]_vars

(* the same calls, each run to its return: CalcCounts is sequential code *)
(* that nothing suspends                                                 *)
SpecWindowFair == InitWindow /\ [][Next]_vars /\ WF_vars(Next)

----------------------------------------------------------------------------
(* Vocabulary of the properties *)

Returned == pc = "done" /\ ret.err = Nil

Snapshots == IF Returned THEN ret.counts ELSE <<>>

(* the call was for one changeset and all the events are its own *)
OneChangeset ==
    /\ Len(cs) = 1
    /\ \A i \in 1..Len(given) : Changeset(given[i]) = cs[1].ID

OpenedBy(t) == cs[1].HasMeta /\ cs[1].CreatedAt <= t

KindsUpTo(t) == {Type(given[i]) : i \in {j \in 1..Len(given) : Timestamp(given[j]) <= t}}

Counters(c) ==
    <<c.Total, c.Merged, c.Closed, c.Open,
      c.OpenApproved, c.OpenChangesRequested, c.OpenPending>>

----------------------------------------------------------------------------
(* The lifecycle of one changeset, as a state machine *)

LifeStep(state, kind) ==
    CASE kind = GitHubReviewed -> state
      [] state = "open" /\ kind = GitHubClosed -> "closed"
      [] state = "closed" /\ kind = GitHubReopened -> "open"
      [] state = "open" /\ kind = GitHubMerged -> "merged"
      [] OTHER -> "invalid"

RECURSIVE LifeRun(_, _, _)
LifeRun(state, events, i) ==
    IF i > Len(events) THEN state
    ELSE LifeRun(LifeStep(state, Type(events[i])), events, i + 1)

(* the timestamp orders of the events that are a valid lifecycle *)
ValidOrders(events) ==
    {o \in SortOutcomes(events) : LifeRun("open", o, 1) # "invalid"}

LifeStateAt(order, t) ==
    LifeRun("open", SelectSeq(order, LAMBDA e : Timestamp(e) <= t), 1)

----------------------------------------------------------------------------
(* C1: a changeset with a merged and a closed event at the same timestamp m *)
(* is reported as merged=1, closed=0, open=0 by every snapshot at t >= m    *)
(* at or after its creation, in either input order.                        *)
C1_MergedWinsOverClosed ==
    (/\ Returned
     /\ OneChangeset
     /\ Len(given) = 2
     /\ {Type(given[1]), Type(given[2])} = {GitHubMerged, GitHubClosed}
     /\ Timestamp(given[1]) = Timestamp(given[2]))
    => \A i \in 1..Len(ret.counts) :
         LET c == ret.counts[i] IN
         (OpenedBy(c.Time) /\ Timestamp(given[1]) <= c.Time)
         => (c.Merged = 1 /\ c.Closed = 0 /\ c.Open = 0)

(* latest review outcome at or before t, "" when none or when the latest *)
(* reviews disagree                                                      *)
ReviewsUpTo(t) ==
    {i \in 1..Len(given) : Type(given[i]) = GitHubReviewed /\ Timestamp(given[i]) <= t}

LatestReviewState(t) ==
    LET latest == {i \in ReviewsUpTo(t) :
                     \A j \in ReviewsUpTo(t) : Timestamp(given[j]) <= Timestamp(given[i])}
        states == {given[i].state : i \in latest}
    IN  IF Cardinality(states) = 1 THEN CHOOSE s \in states : TRUE ELSE ""

(* C2: an open changeset whose latest review at or before t is approved    *)
(* (changes requested, pending) counts 1 in OpenApproved                   *)
(* (OpenChangesRequested, OpenPending) at t and 0 in the other two; with   *)
(* a merged event at or before t it counts 0 in all three.                 *)
C2_ReviewStateCounted ==
    (Returned /\ OneChangeset /\ ValidOrders(given) # {})
    => LET order == CHOOSE o \in ValidOrders(given) : TRUE IN
       \A i \in 1..Len(ret.counts) :
         LET c == ret.counts[i]
             review == LatestReviewState(c.Time)
         IN  OpenedBy(c.Time) =>
             /\ (LifeStateAt(order, c.Time) = "open" /\ review # "")
                => /\ c.OpenApproved = (IF review = "APPROVED" THEN 1 ELSE 0)
                   /\ c.OpenChangesRequested =
                        (IF review = "CHANGES_REQUESTED" THEN 1 ELSE 0)
                   /\ c.OpenPending = (IF review = "PENDING" THEN 1 ELSE 0)
             /\ GitHubMerged \in KindsUpTo(c.Time)
                => (c.OpenApproved = 0 /\ c.OpenChangesRequested = 0 /\ c.OpenPending = 0)

----------------------------------------------------------------------------
(* C3: for one changeset whose events in timestamp order are a valid      *)
(* lifecycle, every snapshot at t >= opened has total=1 and exactly the    *)
(* one of open, closed, merged set that the lifecycle reached with the     *)
(* events at or before t, whatever the order the events were supplied in.  *)
C3_LifecycleState ==
    (Returned /\ OneChangeset /\ ValidOrders(given) # {})
    => LET order == CHOOSE o \in ValidOrders(given) : TRUE IN
       \A i \in 1..Len(ret.counts) :
         LET c == ret.counts[i]
             state == LifeStateAt(order, c.Time)
         IN  OpenedBy(c.Time) =>
             /\ c.Total = 1
             /\ c.Open = (IF state = "open" THEN 1 ELSE 0)
             /\ c.Closed = (IF state = "closed" THEN 1 ELSE 0)
             /\ c.Merged = (IF state = "merged" THEN 1 ELSE 0)

(* closed, reopened, merged supplied as merged, closed, reopened *)
C3_Witness ==
    /\ Returned
    /\ OneChangeset
    /\ Len(given) = 3
    /\ <<Type(given[1]), Type(given[2]), Type(given[3])>>
         = <<GitHubMerged, GitHubClosed, GitHubReopened>>
    /\ Timestamp(given[2]) < Timestamp(given[3])
    /\ Timestamp(given[3]) < Timestamp(given[1])
    /\ given # es
    /\ Len(ret.counts) = 3
    /\ ret.counts[1].Open = 1
    /\ ret.counts[2].Closed = 1
    /\ ret.counts[3].Merged = 1

----------------------------------------------------------------------------
(* C7: when any supplied changeset has no creation time, CalcCounts        *)
(* returns the error and no snapshots, whichever changesets were visited   *)
(* before it.                                                              *)
C7_AllOrNothing ==
    (pc = "done" /\ \E i \in 1..Len(cs) : ~cs[i].HasMeta)
    => (ret.nil /\ ret.counts = <<>> /\ ret.err = "MissingCreationTime")

(* another changeset was already counted when the error was met *)
C7_Witness ==
    /\ pc = "done"
    /\ Len(cs) = 2
    /\ \E i \in 1..2 : ~cs[i].HasMeta /\ todo = {i}
    /\ \E j \in 1..Len(counts) : counts[j].Total = 1
    /\ ret.nil
    /\ ret.counts = <<>>
    /\ ret.err = "MissingCreationTime"

----------------------------------------------------------------------------
SampledInstants == [i \in 1..Len(Snapshots) |-> Snapshots[i].Time]

EndsOnEnd(ts) ==
    /\ Len(ts) > 0
    /\ ts[Len(ts)] = end
    /\ ts[1] >= start
    /\ \A i \in 1..(Len(ts) - 1) : ts[i + 1] - ts[i] = Day

(* C8 as stated: for every start and end the sampled instants end exactly *)
(* on end, begin at or after start and are 24 hours apart.                 *)
C8_EveryWindow == Returned => EndsOnEnd(SampledInstants)

(* C8: for every start <= end the sampled instants end exactly on end,     *)
(* begin at or after start and are 24 hours apart.                         *)
C8_WindowEndsOnEnd == (Returned /\ start <= end) => EndsOnEnd(SampledInstants)

(* a window that is not a whole number of days *)
C8_Witness ==
    /\ Returned
    /\ (end - start) % Day # 0
    /\ Len(SampledInstants) >= 2
    /\ SampledInstants[1] > start
    /\ SampledInstants[Len(SampledInstants)] = end

----------------------------------------------------------------------------
(* C9: every counter of every returned snapshot is non-negative. *)
C9_NonNegative ==
    Returned
    => \A i \in 1..Len(ret.counts) :
         \A k \in 1..7 : Counters(ret.counts[i])[k] >= 0

(* C10: in every snapshot the three review counters together do not       *)
(* exceed Open, and one changeset counts in at most one of them.           *)
C10_ReviewWithinOpen ==
    Returned
    => \A i \in 1..Len(ret.counts) :
         LET c == ret.counts[i] IN
         /\ c.OpenApproved + c.OpenChangesRequested + c.OpenPending <= c.Open
         /\ c.OpenApproved >= 0 /\ c.OpenChangesRequested >= 0 /\ c.OpenPending >= 0
         /\ OneChangeset
            => c.OpenApproved + c.OpenChangesRequested + c.OpenPending <= 1

----------------------------------------------------------------------------
(* The webhook gateway and the store behind it *)

Orgs == {"acme", "other"}
SecretValues == {"secret", "second-secret", "wrong-secret"}
EventNames == {"issue_comment", "ping"}
KnownEvents == {"issue_comment"}

(* the external service testGitHubWebhook configures *)
TestService ==
    [Kind |-> "GITHUB", DisplayName |-> "Github - With Webhook",
     Webhooks |-> {[Org |-> "acme", Secret |-> "secret"]}]

SecondService ==
    [Kind |-> "GITHUB", DisplayName |-> "Github - Second Webhook",
     Webhooks |-> {[Org |-> "acme", Secret |-> "second-secret"]}]

ServiceValues == {TestService, SecondService}

(* a payload: the pull request it is about, the identity of the event on *)
(* the code host, its content, and whether it parses                      *)
Bodies ==
    [pr : 1..(MaxChangesets + 1), key : 1..MaxKeys, data : {"a", "b"}, valid : BOOLEAN]

signIgnoresSecret(message, secret) == <<"sha256=", message>>

(* HMAC-SHA256 taken as collision free: the tag names message and secret *)
sign(message, secret) == <<"sha256=", message, secret>>

(* the request the sender builds: Secret is what the sender signed with, *)
(* the gateway sees only Signature                                        *)
Request(org, name, body, secret) ==
    [Org |-> org, Event |-> name, Body |-> body, Secret |-> secret,
     Signature |-> sign(body, secret)]

Requests ==
    {Request(o, n, b, s) : o \in Orgs, n \in EventNames, b \in Bodies, s \in SecretValues}

(* SecretResolver: the secrets of the webhooks configured for the scope *)
ResolveSecrets(org) ==
    {w.Secret : w \in {x \in UNION {svc.Webhooks : svc \in externalServices} : x.Org = org}}

(* SignatureVerifier *)
Verify(body, signature, secret) == signature = sign(body, secret)

AuthenticateAnyone(r) == TRUE

Authenticate(r) == \E s \in ResolveSecrets(r.Org) : Verify(r.Body, r.Signature, s)

KindOf(name) == IF name = "issue_comment" THEN "github:commented" ELSE "unknown"

EventOf(name, body) ==
    [ChangesetID |-> body.pr, Kind |-> KindOf(name), Key |-> body.key, Data |-> body.data]

TranslateRejectsUnknown(r) ==
    IF r.Event \notin KnownEvents \/ ~r.Body.valid
    THEN [status |-> "Malformed", event |-> Nil]
    ELSE [status |-> "ok", event |-> EventOf(r.Event, r.Body)]

(* EventTranslator *)
Translate(r) ==
    IF r.Event \notin KnownEvents THEN [status |-> "Unrecognized", event |-> Nil]
    ELSE IF ~r.Body.valid THEN [status |-> "Malformed", event |-> Nil]
    ELSE [status |-> "ok", event |-> EventOf(r.Event, r.Body)]

LookupAlwaysFinds(id) == TRUE

LookupChangeset(id) == id \in changesets

SameEvent(a, b) ==
    a.ChangesetID = b.ChangesetID /\ a.Kind = b.Kind /\ a.Key = b.Key

Persisted(rows, e) == \E row \in BagToSet(rows) : SameEvent(row, e)

UpsertAlwaysInserts(rows, e) == rows (+) SetToBag({e})

(* idempotent upsert on (changeset, kind, external identity) *)
UpsertChangesetEvents(rows, e) ==
    IF Persisted(rows, e) THEN rows ELSE rows (+) SetToBag({e})

(* the gates of one request: status code, last stage reached, event rows *)
Handle(r) ==
    IF ~Authenticate(r)
    THEN [code |-> 401, stage |-> "received", events |-> changesetEvents]
    ELSE LET tr == Translate(r) IN
         IF tr.status = "Unrecognized"
         THEN [code |-> 200, stage |-> "authenticated", events |-> changesetEvents]
         ELSE IF tr.status = "Malformed"
         THEN [code |-> 400, stage |-> "authenticated", events |-> changesetEvents]
         ELSE IF ~LookupChangeset(tr.event.ChangesetID)
         THEN [code |-> 200, stage |-> "translated", events |-> changesetEvents]
         ELSE [code |-> 200,
               stage |-> IF Persisted(changesetEvents, tr.event)
                         THEN "skipped" ELSE "persisted",
               events |-> UpsertChangesetEvents(changesetEvents, tr.event)]

(* a request arrives at the endpoint *)
Receive(r) ==
    /\ pc = "idle"
    /\ req' = r
    /\ resp' = [code |-> 0, stage |-> "received"]
    /\ pc' = "serving"
    /\ UNCHANGED <<start, end, cs, given, es, byChangeset, todo, counts, ret, store>>

ServeHTTP ==
    /\ pc = "serving"
    /\ resp' = [code |-> Handle(req).code, stage |-> Handle(req).stage]
    /\ changesetEvents' = Handle(req).events
    /\ req' = NoRequest
    /\ pc' = "idle"
    /\ UNCHANGED <<start, end, cs, given, es, byChangeset, todo, counts, ret,
                   externalServices, changesets>>

UpsertExternalServices(svc) ==
    /\ pc \in {"idle", "serving"}
    /\ svc \notin externalServices
    /\ externalServices' = externalServices \cup {svc}
    /\ UNCHANGED <<calc, changesets, changesetEvents, req, resp>>

CreateChangesets(id) ==
    /\ pc \in {"idle", "serving"}
    /\ id \notin changesets
    /\ changesets' = changesets \cup {id}
    /\ UNCHANGED <<calc, externalServices, changesetEvents, req, resp>>

InitHook ==
    /\ pc = "idle"
    /\ start = 0
    /\ end = 0
    /\ cs = <<>>
    /\ given = <<>>
    /\ es = <<>>
    /\ byChangeset = <<>>
    /\ todo = {}
    /\ counts = <<>>
    /\ ret = [counts |-> <<>>, nil |-> TRUE, err |-> Nil]
    /\ externalServices = {}
    /\ changesets = {}
    /\ changesetEvents = EmptyBag
    /\ req = NoRequest
    /\ resp = [code |-> 0, stage |-> "none"]

NextHook ==
    \/ \E svc \in ServiceValues : UpsertExternalServices(svc)
    \/ \E id \in 1..MaxChangesets : CreateChangesets(id)
    \/ \E r \in Requests : Receive(r)
    \/ ServeHTTP

SpecHook == InitHook /\ [][NextHook]_vars

----------------------------------------------------------------------------
(* C4: a request signed with a secret that is not configured for the      *)
(* claimed scope is answered 401 and leaves external services, changesets *)
(* and changeset events as they were.                                      *)
C4_UnauthorizedLeavesStore ==
    [][(ServeHTTP /\ req.Secret \notin ResolveSecrets(req.Org))
       => (resp'.code = 401 /\ store' = store)]_vars

(* a 401 was answered while a secret was configured and rows existed *)
C4_Witness ==
    /\ resp = [code |-> 401, stage |-> "received"]
    /\ TestService \in externalServices
    /\ changesets # {}
    /\ changesetEvents # EmptyBag

(* C5: a correctly signed request for a changeset id that is not in the   *)
(* store is answered 200 and leaves the store as it was, so any number of *)
(* such deliveries creates no changeset and no changeset event.            *)
C5_UnknownChangesetNoRows ==
    [][(/\ ServeHTTP
        /\ req.Secret \in ResolveSecrets(req.Org)
        /\ req.Event \in KnownEvents
        /\ req.Body.valid
        /\ req.Body.pr \notin changesets)
       => (resp'.code = 200 /\ store' = store)]_vars

(* the lookup failed while other changesets and rows existed *)
C5_Witness ==
    /\ resp = [code |-> 200, stage |-> "translated"]
    /\ changesets # {}
    /\ changesetEvents # EmptyBag

NoDuplicateRows ==
    \A a \in BagToSet(changesetEvents) :
        /\ CopiesIn(a, changesetEvents) = 1
        /\ \A b \in BagToSet(changesetEvents) : SameEvent(a, b) => a = b

(* C6: delivering an event whose (changeset id, kind, external identity)  *)
(* is already persisted leaves the store unchanged, a persisted event is  *)
(* in the store afterwards, and no two rows ever share a key.              *)
C6_RedeliveryIdempotent ==
    /\ []NoDuplicateRows
    /\ [][ServeHTTP =>
            /\ (req.Event \in KnownEvents
                /\ Persisted(changesetEvents, EventOf(req.Event, req.Body)))
               => store' = store
            /\ resp'.stage = "persisted"
               => Persisted(changesetEvents', EventOf(req.Event, req.Body))]_vars

(* a redelivery was met by an existing row *)
C6_Witness ==
    /\ resp = [code |-> 200, stage |-> "skipped"]
    /\ BagCardinality(changesetEvents) >= 1

----------------------------------------------------------------------------
(* Reference folds over the changesets in a fixed order *)

MissingCreation == \E i \in 1..Len(cs) : ~cs[i].HasMeta

(* the changesets of l by ascending ID *)
RECURSIVE ByID(_)
ByID(l) ==
    IF Len(l) = 0 THEN <<>>
    ELSE LET i == CHOOSE k \in 1..Len(l) : \A j \in 1..Len(l) : l[k].ID <= l[j].ID
         IN  <<l[i]>> \o ByID(RemoveAt(l, i))

RECURSIVE FoldChangesets(_, _, _, _)
FoldChangesets(count, list, events, k) ==
    IF k > Len(list) THEN count
    ELSE FoldChangesets(
             CountChangeset(count, list[k].CreatedAt, GroupOf(list[k], events)),
             list, events, k + 1)

(* the snapshots when the changesets of list are visited in list order *)
CountsInOrder(list, events) ==
    LET ts == generateTimestamps(start, end)
    IN  [i \in 1..Len(ts) |-> FoldChangesets(ZeroCounts(ts[i]), list, events, 1)]

(* C11: whatever order the changesets are supplied in and visited in, the *)
(* call returns what visiting them by ascending ID returns, which is also *)
(* what visiting them by descending ID returns.                            *)
C11_ChangesetOrder ==
    pc = "done"
    => IF MissingCreation
       THEN ret.nil /\ ret.err = "MissingCreationTime"
       ELSE /\ ret.err = Nil
            /\ ret.counts = CountsInOrder(ByID(cs), es)
            /\ ret.counts = CountsInOrder(Reverse(ByID(cs)), es)

(* two changesets supplied by descending ID, with different histories *)
C11_Witness ==
    /\ Returned
    /\ Len(cs) = 2
    /\ cs[1].ID > cs[2].ID
    /\ cs[1].CreatedAt # cs[2].CreatedAt
    /\ Len(given) = 1
    /\ Len(ret.counts) = 3
    /\ ret.counts[3].Total = 2
    /\ ret.counts[3].Open = 1

Plus(a, b) ==
    [Time |-> a.Time, Total |-> a.Total + b.Total, Merged |-> a.Merged + b.Merged,
     Closed |-> a.Closed + b.Closed, Open |-> a.Open + b.Open,
     OpenApproved |-> a.OpenApproved + b.OpenApproved,
     OpenChangesRequested |-> a.OpenChangesRequested + b.OpenChangesRequested,
     OpenPending |-> a.OpenPending + b.OpenPending]

RECURSIVE SumAlone(_, _)
SumAlone(i, k) ==
    IF k > Len(cs) THEN ZeroCounts(ret.counts[i].Time)
    ELSE Plus(CountsInOrder(<<cs[k]>>, es)[i], SumAlone(i, k + 1))

(* C12: every counter of every snapshot is the sum over the changesets of *)
(* the counter CalcCounts gives for that changeset alone, with the same   *)
(* window and events.                                                      *)
C12_SumOfAlone ==
    Returned => \A i \in 1..Len(ret.counts) : ret.counts[i] = SumAlone(i, 1)

(* two changesets that both count, one of them closed or merged *)
C12_Witness ==
    /\ Returned
    /\ Len(cs) = 2
    /\ Len(given) = 1
    /\ Len(ret.counts) = 3
    /\ ret.counts[3].Total = 2
    /\ ret.counts[3].Open = 1
    /\ ret.counts[1].Total = 1

----------------------------------------------------------------------------
(* The gates of the gateway *)

Stages == {"received", "authenticated", "translated", "skipped", "persisted"}

Authentic == req.Secret \in ResolveSecrets(req.Org)

Parses == req.Event \in KnownEvents /\ req.Body.valid

(* C13: a request gets past "received" only when it was signed with a     *)
(* configured secret, past "authenticated" only when moreover its payload *)
(* translated, and the store is written (or the write skipped as a        *)
(* redelivery) only when moreover its changeset was found.                *)
C13_SequentialGates ==
    [][ServeHTTP =>
        /\ resp'.stage \in Stages
        /\ resp'.stage # "received" => Authentic
        /\ resp'.stage \in {"translated", "skipped", "persisted"}
           => Authentic /\ Parses
        /\ (store' # store \/ resp'.stage \in {"skipped", "persisted"})
           => Authentic /\ Parses /\ req.Body.pr \in changesets]_vars

(* two requests went through every gate *)
C13_Witness ==
    /\ resp = [code |-> 200, stage |-> "persisted"]
    /\ BagCardinality(changesetEvents) = 2

C15_UnknownOrMalformed ==
    [][(ServeHTTP /\ Authentic) =>
        /\ req.Event \notin KnownEvents
           => (resp'.code = 200 /\ store' = store)
        /\ (req.Event \in KnownEvents /\ ~req.Body.valid)
           => (resp'.code \in {400, 422} /\ store' = store)]_vars

(* a malformed payload of a known type was refused while rows existed *)
C15_Witness ==
    /\ resp = [code |-> 400, stage |-> "authenticated"]
    /\ changesets # {}
    /\ changesetEvents # EmptyBag

----------------------------------------------------------------------------
(* Sampling at an instant *)

(* how many events of a kind were supplied with a timestamp at or before t *)
NumUpTo(kind, t) ==
    Cardinality({i \in 1..Len(given) :
                   Type(given[i]) = kind /\ Timestamp(given[i]) <= t})

(* C16: for one changeset created at or before t (t itself included),     *)
(* the snapshot at t counts it once in Total and reflects exactly the     *)
(* events with timestamp at or before t (t itself included); events       *)
(* after t leave it alone.                                                 *)
C16_OnOrBefore ==
    (Returned /\ OneChangeset)
    => \A i \in 1..Len(ret.counts) :
         LET c == ret.counts[i]
             t == c.Time
         IN  cs[1].CreatedAt <= t =>
             /\ c.Total = 1
             /\ c.Merged = NumUpTo(GitHubMerged, t)
             /\ c.Closed = NumUpTo(GitHubClosed, t) - NumUpTo(GitHubReopened, t)
             /\ c.Open = 1 - NumUpTo(GitHubClosed, t) + NumUpTo(GitHubReopened, t)
                           - NumUpTo(GitHubMerged, t)

(* created and closed exactly at the second instant, reopened between the *)
(* second and the third                                                    *)
C16_Witness ==
    /\ Returned
    /\ cs[1].CreatedAt = Day
    /\ given = << [t |-> Day, kind |-> GitHubClosed, id |-> 1, state |-> ""],
                  [t |-> Day + 1, kind |-> GitHubReopened, id |-> 1, state |-> ""] >>
    /\ Len(ret.counts) = 3
    /\ ret.counts[1].Total = 0
    /\ ret.counts[2].Total = 1 /\ ret.counts[2].Closed = 1 /\ ret.counts[2].Open = 0
    /\ ret.counts[3].Closed = 0 /\ ret.counts[3].Open = 1

(* C17: a changeset created strictly after t leaves every counter of the  *)
(* snapshot at t at zero, whatever events it has at or before t.           *)
C17_NotYetCreated ==
    (Returned /\ OneChangeset)
    => \A i \in 1..Len(ret.counts) :
         cs[1].CreatedAt > ret.counts[i].Time
         => ret.counts[i] = ZeroCounts(ret.counts[i].Time)

(* a merged event dated before the creation of its changeset *)
C17_Witness ==
    /\ Returned
    /\ cs[1].CreatedAt = Day
    /\ \E i \in 1..Len(given) :
         Timestamp(given[i]) = 0 /\ Type(given[i]) = GitHubMerged
    /\ Len(ret.counts) = 3
    /\ ret.counts[1] = ZeroCounts(0)
    /\ ret.counts[2].Merged = 1

(* C18: the call returns what folding the events in any timestamp order   *)
(* of the supplied events returns, and in any timestamp order of the      *)
(* supplied events reversed: neither the order they were supplied in nor  *)
(* the order the sort leaves ties in changes a snapshot.                   *)
C18_EventOrder ==
    Returned
    => /\ \A o \in SortOutcomes(given) : ret.counts = CountsInOrder(cs, o)
       /\ \A o \in SortOutcomes(Reverse(given)) : ret.counts = CountsInOrder(cs, o)

(* supplied unsorted, and the sort swapped the two events of a tie *)
C18_Witness ==
    /\ Returned
    /\ Len(given) = 3
    /\ Timestamp(given[1]) = Timestamp(given[2])
    /\ Type(given[1]) # Type(given[2])
    /\ Timestamp(given[3]) < Timestamp(given[1])
    /\ es = <<given[3], given[2], given[1]>>
    /\ ret.counts[Len(ret.counts)].Total = 1

----------------------------------------------------------------------------
(* Termination and the number of snapshots *)

SnapshotCount == (end - start) \div Day + 1

WindowResult ==
    /\ ret.err = Nil
    /\ start <= end => Len(ret.counts) = SnapshotCount
    /\ end < start => (ret.counts = <<>> /\ ~ret.nil)

(* C19 as stated: every call that has returned gave floor((end-start)/24h) *)
(* + 1 snapshots when start <= end, and an empty sequence and no error     *)
(* when end is before start.                                               *)
C19_EveryInput == pc = "done" => WindowResult

(* C19: every call returns; when every changeset has a creation time it   *)
(* returns floor((end-start)/24h) + 1 snapshots for start <= end and an   *)
(* empty sequence and no error for end before start; otherwise it returns *)
(* nil and the error, whatever the window.                                 *)
C19_TerminatesWithCount ==
    /\ <>(pc = "done")
    /\ [](pc = "done" =>
            IF MissingCreation
            THEN ret.nil /\ ret.err = "MissingCreationTime"
            ELSE WindowResult)

(* a window that ends before it starts, for a changeset with an event *)
C19_Witness ==
    /\ Returned
    /\ end < start
    /\ Len(cs) = 1
    /\ Len(given) = 1
    /\ ret.counts = <<>>
    /\ ~ret.nil

----------------------------------------------------------------------------
(* C20: every returned snapshot has Total = Open + Closed + Merged,       *)
(* negative counters included: closed, reopened and merged each move one  *)
(* unit between the three.                                                 *)
C20_TotalIsSum ==
    Returned
    => \A i \in 1..Len(ret.counts) :
         ret.counts[i].Total
           = ret.counts[i].Open + ret.counts[i].Closed + ret.counts[i].Merged

(* closed, reopened and merged all applied, and a snapshot where closed   *)
(* and merged are both counted                                             *)
C20_Witness ==
    /\ Returned
    /\ {Type(given[i]) : i \in 1..Len(given)}
         = {GitHubClosed, GitHubReopened, GitHubMerged}
    /\ \E i \in 1..Len(ret.counts) :
         /\ ret.counts[i].Total = 1
         /\ ret.counts[i].Closed = 1
         /\ ret.counts[i].Merged = 1
         /\ ret.counts[i].Open = -1

----------------------------------------------------------------------------
(* C21: a call leaves the caller's event sequence (same events, same      *)
(* order) and the changesets as they were before it.                       *)
C21_InputsUnmodified == [][es' = es /\ cs' = cs]_vars

----------------------------------------------------------------------------
(* the supplied events whose changeset is among the supplied changesets *)
OwnEvents ==
    SelectSeq(es, LAMBDA e : \E k \in 1..Len(cs) : Changeset(e) = cs[k].ID)

(* C22: along the returned snapshots Total and Merged never decrease,     *)
(* Total is at most the number of supplied changesets, and the snapshots  *)
(* are those of the call without the events of changesets that were not   *)
(* supplied.                                                               *)
C22_MonotoneAndForeign ==
    Returned
    => /\ \A i \in 1..Len(ret.counts) : \A j \in i..Len(ret.counts) :
            /\ ret.counts[i].Total <= ret.counts[j].Total
            /\ ret.counts[i].Merged <= ret.counts[j].Merged
       /\ \A i \in 1..Len(ret.counts) : ret.counts[i].Total <= Len(cs)
       /\ ret.counts = CountsInOrder(ByID(cs), OwnEvents)

(* a merged event of a changeset that was not supplied *)
C22_Witness ==
    /\ Returned
    /\ Len(cs) = 1
    /\ cs[1].CreatedAt = Day
    /\ Len(given) = 1
    /\ Changeset(given[1]) # cs[1].ID
    /\ Type(given[1]) = GitHubMerged
    /\ Timestamp(given[1]) = Day
    /\ Len(ret.counts) = 3
    /\ ret.counts[1].Total = 0
    /\ ret.counts[3].Total = 1
    /\ ret.counts[3].Merged = 0
    /\ ret.counts[3].Open = 1

====
